---- MODULE Spec2Model ----
(***************************************************************************)
(* PacRobo portfolio chat (src/streamlit_app.py).                          *)
(*                                                                         *)
(* Three parts of the script are modelled:                                 *)
(*   - the portfolio data fetcher  (safe_get, get_portfolio_predictions_df)*)
(*   - the prompt builder          (summarize_portfolio, create_prompt)    *)
(*   - the chat orchestrator       (the module-level script, re-executed   *)
(*                                  by Streamlit on every interaction)     *)
(*                                                                         *)
(* Money is counted in thousandths of a currency unit, rounded totals in   *)
(* hundredths.  A DataFrame is a record [columns, rows]: the set of column *)
(* names and the sequence of rows, each row a function from column name to *)
(* value (column order is not represented).                                *)
(***************************************************************************)
EXTENDS Integers, Sequences, FiniteSets, TLC

VARIABLES
    api,            \* what the REST backend answers: [listing, predictions]
    cache,          \* st.cache_data entry of get_portfolio_predictions_df
    gets,           \* number of requests.get calls issued by the process
    status,         \* per session: where the last script run ended
    widget,         \* per session: the selectbox's stored choice
    chat_history,   \* per session: st.session_state.chat_history
    last_turn,      \* per session: input and outcome of the latest turn
    llm_request,    \* per session: the latest LLM request and what it was built from
    turns,          \* per session: number of chat inputs submitted
    input_df,       \* prompt builder: the row set as it was before the calls
    arg_df,         \* prompt builder: the DataFrame object handed to the calls
    totals,         \* prompt builder: value returned by summarize_portfolio
    prompt,         \* prompt builder: value returned by create_prompt
    calls           \* prompt builder: number of calls made on arg_df

vars == <<api, cache, gets, status, widget, chat_history, last_turn,
          llm_request, turns, input_df, arg_df, totals, prompt, calls>>

appVars == <<status, widget, chat_history, last_turn, llm_request, turns>>
builderVars == <<input_df, arg_df, totals, prompt, calls>>

(***************************************************************************)
(* Bounds of the model.                                                    *)
(***************************************************************************)
MaxPortfolios == 2      \* portfolios in one listing response
MaxRows == 2            \* prediction rows in one predictions response
MaxTurns == 3           \* chat inputs submitted to one process
MaxCalls == 2           \* repeated prompt builder calls on one DataFrame
MaxSumRows == 2         \* rows of the DataFrame handed to the prompt builder

Sessions == {"s1", "s2"}
PortfolioIds == {1, 2}
PortfolioNames == {"Growth", "nan"}
Questions == {"hello", "total?"}
Replies == {" Hi there! "}

None == "None"          \* Python None (the selectbox's value when it has no options)
NA == "<NA>"            \* pandas.NA

(***************************************************************************)
(* Sequences of bounded length.                                            *)
(***************************************************************************)
SeqsUpTo(S, n) == UNION {[1..k -> S] : k \in 0..n}

RECURSIVE SumSeq(_)
SumSeq(s) == IF s = <<>> THEN 0 ELSE Head(s) + SumSeq(Tail(s))

(***************************************************************************)
(* JSON values of the backend.                                             *)
(***************************************************************************)
HasKey(d, k) == k \in DOMAIN d

\* Row objects of the predictions endpoint.  One backend uses one key
\* spelling for all its rows; "quantity " is a padded column name.
QuantityKeys == {"quantity", "quantity "}

ApiRow(pp, cp, qkey, q) ==
    ("purchase_price" :> pp) @@ ("current_price" :> cp) @@ (qkey :> q)

ApiRows(qkey) == {ApiRow(10000, 12000, qkey, 5), ApiRow(125, 375, qkey, 1)}

\* Items of the listing endpoint: well-formed ones and ones lacking a key.
ValidPortfolios ==
    {[portfolio |-> [portfolio_id |-> i, name |-> n]] :
        i \in PortfolioIds, n \in PortfolioNames}

BrokenPortfolios ==
    { [owner |-> 1],
      [portfolio |-> [name |-> "Growth"]],
      [portfolio |-> [portfolio_id |-> 1]] }

PortfolioJson == ValidPortfolios \cup BrokenPortfolios

\* An HTTP exchange: ok = FALSE stands for a network error, a timeout, a
\* non-success status or an undecodable body.
Response(ok, json) == [ok |-> ok, json |-> json]
Failure == Response(FALSE, <<>>)

ListingResponses ==
    {Failure} \cup {Response(TRUE, b) : b \in SeqsUpTo(PortfolioJson, MaxPortfolios)}

PredictionResponses(qkey) ==
    {Failure} \cup {Response(TRUE, b) : b \in SeqsUpTo(ApiRows(qkey), MaxRows)}

Backends ==
    UNION { [listing : ListingResponses,
             predictions : [PortfolioIds -> PredictionResponses(qkey)]] :
            qkey \in QuantityKeys }

(***************************************************************************)
(* Portfolio data fetcher.                                                 *)
(***************************************************************************)
\* safe_get: the decoded body of a successful exchange, [] otherwise.
safe_get(response) == IF response.ok THEN response.json ELSE <<>>

\* The key accesses p["portfolio"]["portfolio_id"] and p["portfolio"]["name"]
\* succeed; otherwise they raise KeyError inside the try block.
ParsesOk(p) ==
    /\ HasKey(p, "portfolio")
    /\ HasKey(p.portfolio, "portfolio_id")
    /\ HasKey(p.portfolio, "name")

\* entry["portfolio_id"] = portfolio_id; entry["portfolio_name"] = portfolio_name
TagEntry(entry, portfolio_id, portfolio_name) ==
    [k \in DOMAIN entry \cup {"portfolio_id", "portfolio_name"} |->
        IF k = "portfolio_id" THEN portfolio_id
        ELSE IF k = "portfolio_name" THEN portfolio_name
        ELSE entry[k]]

\* The try block of one loop iteration, for an item whose keys are present.
PortfolioPredictions(p, backend) ==
    LET portfolio_id == p.portfolio.portfolio_id
        portfolio_name == p.portfolio.name
        predictions == safe_get(backend.predictions[portfolio_id])
    IN  [j \in 1..Len(predictions) |->
            TagEntry(predictions[j], portfolio_id, portfolio_name)]

RECURSIVE Accumulate(_, _)

\* except Exception: ... continue
OnParseError(rest, backend) == Accumulate(rest, backend)

\* for p in portfolios: ... all_predictions.extend(predictions)
Accumulate(portfolios, backend) ==
    IF portfolios = <<>> THEN <<>>
    ELSE IF ~ParsesOk(Head(portfolios))
         THEN OnParseError(Tail(portfolios), backend)
         ELSE PortfolioPredictions(Head(portfolios), backend)
                \o Accumulate(Tail(portfolios), backend)

\* pd.DataFrame(list of dicts)
DataFrame(records) ==
    [columns |-> UNION {DOMAIN records[i] : i \in 1..Len(records)},
     rows |-> records]

\* df.empty: no rows or no columns
IsEmpty(df) == df.rows = <<>> \/ df.columns = {}

\* A frame without any column.
NoColumnsFrame == [columns |-> {}, rows |-> <<>>]

\* pd.DataFrame(columns=["portfolio_name"])
EmptyFrame == [columns |-> {"portfolio_name"}, rows |-> <<>>]

\* str.strip on the column names that occur
Strip(c) == IF c = "quantity " THEN "quantity" ELSE c

\* df.columns = df.columns.astype(str).str.strip()
StripColumns(df) ==
    [columns |-> {Strip(c) : c \in df.columns},
     rows |-> [i \in 1..Len(df.rows) |->
                 [c \in {Strip(k) : k \in DOMAIN df.rows[i]} |->
                     df.rows[i][CHOOSE k \in DOMAIN df.rows[i] : Strip(k) = c]]]]

\* .astype(str).replace("nan", pd.NA) on one value of the column
NormalizeName(v) == IF v = "nan" THEN NA ELSE v

\* if "portfolio_name" in df.columns: df["portfolio_name"] = ...
NormalizeNames(df) ==
    IF "portfolio_name" \in df.columns
    THEN [df EXCEPT !.rows =
            [i \in 1..Len(df.rows) |->
                [df.rows[i] EXCEPT !["portfolio_name"] = NormalizeName(@)]]]
    ELSE df

get_portfolio_predictions_df(backend) ==
    LET portfolios == safe_get(backend.listing)
    IN  IF portfolios = <<>> THEN EmptyFrame
        ELSE LET df == DataFrame(Accumulate(portfolios, backend))
             IN  IF IsEmpty(df) THEN EmptyFrame
                 ELSE NormalizeNames(StripColumns(df))

\* requests.get calls of one uncached call: the listing, then one per item
\* of the listing whose keys are present.
GetCalls(backend) ==
    LET portfolios == safe_get(backend.listing)
    IN  1 + Cardinality({i \in 1..Len(portfolios) : ParsesOk(portfolios[i])})

\* A decorator that keeps nothing: every call runs the function again.
CacheMissAlways(entry) == FALSE

\* @st.cache_data without ttl: a stored entry is returned for the rest of
\* the process.
CacheHit(entry) == entry # <<>>

\* df = get_portfolio_predictions_df(), through the cache
CachedFetch ==
    IF CacheHit(cache)
    THEN UNCHANGED <<cache, gets>>
    ELSE /\ cache' = <<get_portfolio_predictions_df(api)>>
         /\ gets' = gets + GetCalls(api)

(***************************************************************************)
(* State after construction.                                               *)
(***************************************************************************)
\* A process that has just started: nothing cached, no request issued.
ProcessStart ==
    /\ cache = <<>>
    /\ gets = 0

\* No browser session has run the script yet.
NoSessions ==
    /\ status = [s \in Sessions |-> "new"]
    /\ widget = [s \in Sessions |-> None]
    /\ chat_history = [s \in Sessions |-> <<>>]
    /\ last_turn = [s \in Sessions |-> <<>>]
    /\ llm_request = [s \in Sessions |-> <<>>]
    /\ turns = [s \in Sessions |-> 0]

\* The prompt builder has not been called.
BuilderIdle ==
    /\ input_df = EmptyFrame
    /\ arg_df = EmptyFrame
    /\ totals = <<>>
    /\ prompt = <<>>
    /\ calls = 0

(***************************************************************************)
(* SpecFetch: one uncached call of get_portfolio_predictions_df against    *)
(* every backend of the bounded set.                                       *)
(***************************************************************************)
InitFetch ==
    /\ api \in Backends
    /\ ProcessStart
    /\ NoSessions
    /\ BuilderIdle

FetchCall ==
    /\ cache = <<>>
    /\ CachedFetch
    /\ UNCHANGED api
    /\ UNCHANGED appVars
    /\ UNCHANGED builderVars

NextFetch == FetchCall

SpecFetch == InitFetch /\ [][NextFetch]_vars

\* The table the call returned.
Fetched == cache # <<>>
Table == Head(cache)

\* The listing as the claims see it.
Listed == api.listing.json
ListedOk(i) == Listed[i] \in ValidPortfolios
PredictionsOf(i) == api.predictions[Listed[i].portfolio.portfolio_id]
\* The rows portfolio i contributes: its predictions when its item is
\* well-formed and its predictions call succeeded, none otherwise.
Contribution(i) ==
    IF ListedOk(i) /\ PredictionsOf(i).ok THEN PredictionsOf(i).json ELSE <<>>
RowsBefore(i) == SumSeq([j \in 1..(i - 1) |-> Len(Contribution(j))])
\* The portfolio whose predictions call returned the k-th row of the table.
OwnerOf(k) ==
    CHOOSE i \in 1..Len(Listed) :
        RowsBefore(i) < k /\ k <= RowsBefore(i) + Len(Contribution(i))
\* The k-th row of the table is the row the owner's call returned, tagged
\* with the owner's id and name.
RowIsOwners(k) ==
    LET i == OwnerOf(k)
        sent == Contribution(i)[k - RowsBefore(i)]
        row == Table.rows[k]
    IN  /\ row["portfolio_id"] = Listed[i].portfolio.portfolio_id
        /\ row["portfolio_name"] = Listed[i].portfolio.name
        /\ row["purchase_price"] = sent["purchase_price"]
        /\ row["current_price"] = sent["current_price"]
MergedAsClaimed ==
    /\ Len(Table.rows) = RowsBefore(Len(Listed) + 1)
    /\ \A k \in 1..Len(Table.rows) : RowIsOwners(k)

AllValid ==
    /\ api.listing.ok
    /\ \A i \in 1..Len(Listed) : ListedOk(i) /\ PredictionsOf(i).ok
SomeFailed ==
    /\ api.listing.ok
    /\ \E i \in 1..Len(Listed) : ~(ListedOk(i) /\ PredictionsOf(i).ok)

\* C2: for a valid listing and valid predictions of every listed portfolio,
\* the table has as many rows as the predictions calls returned in total and
\* each row carries the id and name of the portfolio whose call returned it.
C2_RowsTaggedWithOwner == (Fetched /\ AllValid) => MergedAsClaimed

\* C8: when the item or the predictions call of some portfolio fails, that
\* portfolio contributes no row and every row of every other portfolio is
\* present and carries that portfolio's id and name.
C8_FailuresIsolated == (Fetched /\ SomeFailed) => MergedAsClaimed

\* Supporting facts: both statements hold of every backend in which no listed
\* portfolio is named "nan", the one name NormalizeName does not keep.
NoNanName ==
    \A i \in 1..Len(Listed) : ListedOk(i) => Listed[i].portfolio.name # "nan"
TaggedWithOwnerUnlessNan == (Fetched /\ AllValid /\ NoNanName) => MergedAsClaimed
FailuresIsolatedUnlessNan == (Fetched /\ SomeFailed /\ NoNanName) => MergedAsClaimed

\* The cases of C3: the listing call failed or returned an empty list, or
\* the predictions call of every listed portfolio failed.
NothingFetched ==
    \/ ~api.listing.ok
    \/ Listed = <<>>
    \/ \A i \in 1..Len(Listed) : ListedOk(i) => ~PredictionsOf(i).ok

\* C3: in those cases the call returns a table with zero rows whose only
\* column is portfolio_name.
C3_EmptyTableOnFailure ==
    (Fetched /\ NothingFetched) =>
        (Table.rows = <<>> /\ Table.columns = {"portfolio_name"})

\* C3 witness: the listing named two portfolios and both predictions calls
\* failed, and the call has returned.
C3_Witness ==
    /\ Fetched
    /\ api.listing.ok
    /\ Len(Listed) = 2
    /\ \A i \in 1..Len(Listed) : ListedOk(i) /\ ~PredictionsOf(i).ok
    /\ Listed[1].portfolio.portfolio_id # Listed[2].portfolio.portfolio_id

(***************************************************************************)
(* Prompt builder.                                                         *)
(***************************************************************************)
\* df[name] = values: adds the column, or overwrites it when the frame
\* already has it.
WithColumn(df, name, values) ==
    [columns |-> df.columns \cup {name},
     rows |-> [i \in 1..Len(df.rows) |-> (name :> values[i]) @@ df.rows[i]]]

\* df[name].sum()
ColumnSum(df, name) == SumSeq([i \in 1..Len(df.rows) |-> df.rows[i][name]])

\* round(x, 2): x in thousandths, the result in hundredths, ties to even.
\* (The money values of the model are multiples of 0.125, which binary
\* floating point holds exactly, so a tie is a tie for the code as well.)
Round2(x) ==
    LET q == x \div 10
        r == x % 10
    IN  IF r > 5 \/ (r = 5 /\ q % 2 = 1) THEN q + 1 ELSE q

\* A total that adds to the column's previous value instead of replacing it.
PurchaseValueAdded(row) ==
    (IF HasKey(row, "total_purchase") THEN row["total_purchase"] ELSE 0)
        + row["purchase_price"] * row["quantity"]

\* df["purchase_price"] * df["quantity"]
PurchaseValue(row) == row["purchase_price"] * row["quantity"]

\* df["current_price"] * df["quantity"]
CurrentValue(row) == row["current_price"] * row["quantity"]

\* The columns summarize_portfolio reads; it raises KeyError without them.
PriceColumns == {"purchase_price", "current_price", "quantity"}

\* summarize_portfolio: df is the argument as the call leaves it, value the
\* pair it returns.
summarize_portfolio(df) ==
    LET d1 == WithColumn(df, "total_purchase",
                         [i \in 1..Len(df.rows) |-> PurchaseValue(df.rows[i])])
        d2 == WithColumn(d1, "total_current",
                         [i \in 1..Len(d1.rows) |-> CurrentValue(d1.rows[i])])
    IN  [df |-> d2,
         value |-> <<Round2(ColumnSum(d2, "total_purchase")),
                     Round2(ColumnSum(d2, "total_current"))>>]

\* df.to_csv(index=False): a header of the column names and one line per
\* row, holding the row's value of every column.
to_csv(df) == [header |-> df.columns, lines |-> df.rows]

\* create_prompt: df is the argument as the call leaves it, value the prompt.
\* The fixed instruction text is the same in every prompt; the record holds
\* the parts that vary.
create_prompt(df, portfolio_name, user_query) ==
    LET s == summarize_portfolio(df)
    IN  [df |-> s.df,
         value |-> [portfolio_name |-> portfolio_name,
                    preview |-> to_csv(s.df),
                    total_purchase |-> s.value[1],
                    total_current |-> s.value[2],
                    user_query |-> user_query]]

(***************************************************************************)
(* SpecPrompt: the prompt builder called repeatedly on one DataFrame.      *)
(***************************************************************************)
\* Rows of a filtered table: after StripColumns, tagged with one portfolio.
BuilderRows ==
    {TagEntry(ApiRow(pp, cp, "quantity", q), 1, "Growth") :
        pp \in {10000, 125}, cp \in {12000, 375}, q \in {5, 1}}

BuilderColumns == PriceColumns \cup {"portfolio_id", "portfolio_name"}

\* Filtered tables: the columns of the table, zero or more of its rows.
BuilderFrames ==
    {[columns |-> BuilderColumns, rows |-> r] : r \in SeqsUpTo(BuilderRows, MaxSumRows)}

InitPrompt ==
    /\ input_df \in BuilderFrames
    /\ arg_df = input_df
    /\ totals = <<>>
    /\ prompt = <<>>
    /\ calls = 0
    /\ api = [listing |-> Failure, predictions |-> [i \in PortfolioIds |-> Failure]]
    /\ ProcessStart
    /\ NoSessions

CallSummarize ==
    /\ calls < MaxCalls
    /\ LET r == summarize_portfolio(arg_df)
       IN  /\ arg_df' = r.df
           /\ totals' = <<r.value>>
    /\ calls' = calls + 1
    /\ UNCHANGED <<input_df, prompt, api, cache, gets>>
    /\ UNCHANGED appVars

CallCreatePrompt ==
    /\ calls < MaxCalls
    /\ \E q \in Questions :
         LET r == create_prompt(arg_df, "Growth", q)
         IN  /\ arg_df' = r.df
             /\ prompt' = <<r.value>>
             /\ totals' = <<<<r.value.total_purchase, r.value.total_current>>>>
    /\ calls' = calls + 1
    /\ UNCHANGED <<input_df, api, cache, gets>>
    /\ UNCHANGED appVars

NextPrompt == CallSummarize \/ CallCreatePrompt

SpecPrompt == InitPrompt /\ [][NextPrompt]_vars

\* The sums of the claim, over the row set as it was before any call.
RECURSIVE PurchaseSum(_)
PurchaseSum(rows) ==
    IF rows = <<>> THEN 0
    ELSE Head(rows)["purchase_price"] * Head(rows)["quantity"] + PurchaseSum(Tail(rows))
RECURSIVE CurrentSum(_)
CurrentSum(rows) ==
    IF rows = <<>> THEN 0
    ELSE Head(rows)["current_price"] * Head(rows)["quantity"] + CurrentSum(Tail(rows))

ExampleRow == TagEntry(ApiRow(10000, 12000, "quantity", 5), 1, "Growth")

\* C5: after any number of calls on the same row set, summarize_portfolio
\* has returned (round(sum purchase_price*quantity, 2), round(sum
\* current_price*quantity, 2)); the single row (10, 12, 5) gives
\* (50.00, 60.00) and the empty row set gives (0, 0).
C5_TotalsAreRoundedSums ==
    totals # <<>> =>
        /\ Head(totals) = <<Round2(PurchaseSum(input_df.rows)),
                            Round2(CurrentSum(input_df.rows))>>
        /\ input_df.rows = <<ExampleRow>> => Head(totals) = <<5000, 6000>>
        /\ input_df.rows = <<>> => Head(totals) = <<0, 0>>

\* C5 witness: the second call on the example row set has returned.
C5_Witness ==
    /\ calls = 2
    /\ input_df.rows = <<ExampleRow>>
    /\ totals = <<<<5000, 6000>>>>

\* C4: after the prompt builder returns, the row set passed in has the
\* columns and values it had before the call, and the rows serialized into
\* the prompt are the rows and columns of the table that was passed in.
C4_BuilderLeavesInputAlone ==
    calls > 0 =>
        /\ arg_df = input_df
        /\ prompt # <<>> => Head(prompt).preview = to_csv(input_df)

(***************************************************************************)
(* Chat orchestrator: the module-level script.                             *)
(***************************************************************************)
\* The guard without its emptiness test.
UsableIfColumn(df) == "portfolio_name" \in df.columns

\* not df.empty and "portfolio_name" in df.columns
Usable(df) == ~IsEmpty(df) /\ "portfolio_name" \in df.columns

\* df["portfolio_name"].dropna().unique().tolist(): the names other than NA,
\* each once, in order of first appearance.
RECURSIVE UniqueNames(_, _)
UniqueNames(rows, seen) ==
    IF rows = <<>> THEN <<>>
    ELSE LET n == Head(rows)["portfolio_name"]
         IN  IF n = NA \/ n \in seen
             THEN UniqueNames(Tail(rows), seen)
             ELSE <<n>> \o UniqueNames(Tail(rows), seen \cup {n})

\* st.selectbox: None without options; else the stored choice when it is
\* one of the options, and the first option otherwise.
selectbox(options, stored) ==
    IF options = <<>> THEN None
    ELSE IF \E i \in 1..Len(options) : options[i] = stored THEN stored
    ELSE options[1]

RowNamed(row, selected) == row["portfolio_name"] = selected

\* df[df["portfolio_name"] == selected_portfolio]: a new frame with the
\* columns of df and the rows whose name equals the selection.
Filter(df, selected) ==
    [columns |-> df.columns,
     rows |-> SelectSeq(df.rows, LAMBDA row : RowNamed(row, selected))]

\* str.strip on the reply texts that occur
StripText(t) == IF t = " Hi there! " THEN "Hi there!" ELSE t

\* What the LLM client does with a request: it returns a text or raises.
LlmOutcomes ==
    {[raised |-> FALSE, content |-> r] : r \in Replies}
        \cup {[raised |-> TRUE, content |-> ""]}

\* messages=[{"role": "user", "content": prompt}]
query_llm_messages(text) == <<[role |-> "user", content |-> text]>>

\* A request that carries the session's log in front of the prompt.
RequestWithLog(s, text) == chat_history[s] \o query_llm_messages(text)

\* query_llm(prompt) as the turn of session s calls it
RequestOf(s, text) == query_llm_messages(text)

Message(role, content) == [role |-> role, content |-> content]

\* if user_input: ... st.rerun()
\* The user message is appended first; create_prompt raises KeyError on a
\* frame without the price columns and query_llm lets the client's exception
\* through, and either ends the run before the assistant message is
\* appended.  After a reply the run appends it and reruns the script, which
\* ends awaiting input.
Turn(s, filtered_df, selected, user_input, llm) ==
    LET asked == Append(chat_history[s], Message("user", user_input))
        built == create_prompt(filtered_df, selected, user_input)
        keyError == ~(PriceColumns \subseteq filtered_df.columns)
        failed == keyError \/ llm.raised
    IN  /\ turns' = [turns EXCEPT ![s] = @ + 1]
        /\ last_turn' = [last_turn EXCEPT ![s] =
              <<[user_input |-> user_input, failed |-> failed]>>]
        /\ llm_request' = [llm_request EXCEPT ![s] =
              IF keyError THEN @
              ELSE <<[selected |-> selected, user_input |-> user_input,
                      messages |-> RequestOf(s, built.value)]>>]
        /\ chat_history' = [chat_history EXCEPT ![s] =
              IF failed THEN asked
              ELSE Append(asked, Message("assistant", StripText(llm.content)))]
        /\ status' = [status EXCEPT ![s] =
              IF failed THEN "exception" ELSE "awaiting"]

\* One execution of the script for session s.  choice is the option the user
\* picked in the selectbox (None: left alone), user_input the submitted chat
\* input (None: nothing submitted), llm what the LLM client does if called.
Script(s, choice, user_input, llm) ==
    /\ CachedFetch
    /\ LET df == Head(cache')
       IN  IF ~Usable(df)
           THEN \* st.error(...); st.stop()
                /\ status' = [status EXCEPT ![s] = "stopped"]
                /\ UNCHANGED <<widget, chat_history, last_turn, llm_request, turns>>
           ELSE LET unique_portfolios == UniqueNames(df.rows, {})
                    selected_portfolio ==
                        selectbox(unique_portfolios,
                                  IF choice = None THEN widget[s] ELSE choice)
                    filtered_df == Filter(df, selected_portfolio)
                IN  /\ widget' = [widget EXCEPT ![s] = selected_portfolio]
                    /\ IF user_input = None
                       THEN /\ status' = [status EXCEPT ![s] = "awaiting"]
                            /\ UNCHANGED <<chat_history, last_turn, llm_request, turns>>
                       ELSE Turn(s, filtered_df, selected_portfolio, user_input, llm)
    /\ UNCHANGED api
    /\ UNCHANGED builderVars

\* The selectbox and the chat input of session s are on the page: its last
\* run got past the guard (an exception in the turn comes after both).
WidgetsShown(s) == status[s] \in {"awaiting", "exception"}

\* Chat inputs submitted since the process started.
TotalTurns == turns["s1"] + turns["s2"]

\* The page is opened or rerun without any widget input.
Load(s) == Script(s, None, None, [raised |-> FALSE, content |-> ""])

\* The user picks a portfolio in the selectbox.
SelectPortfolio(s) ==
    /\ WidgetsShown(s)
    /\ cache # <<>>
    /\ LET options == UniqueNames(Head(cache).rows, {})
       IN  \E i \in 1..Len(options) :
             Script(s, options[i], None, [raised |-> FALSE, content |-> ""])

\* The user submits a chat input.
Ask(s) ==
    /\ WidgetsShown(s)
    /\ TotalTurns < MaxTurns
    /\ \E q \in Questions, llm \in LlmOutcomes : Script(s, None, q, llm)

\* Backends of the running application.
Portfolio(i, n) == [portfolio |-> [portfolio_id |-> i, name |-> n]]
RowA == ApiRow(10000, 12000, "quantity ", 5)
RowB == ApiRow(125, 375, "quantity ", 1)
BackendDown ==
    [listing |-> Failure, predictions |-> [i \in PortfolioIds |-> Failure]]
BackendTwo ==
    [listing |-> Response(TRUE, <<Portfolio(1, "Growth"), Portfolio(2, "Income")>>),
     predictions |-> [i \in PortfolioIds |->
                        Response(TRUE, IF i = 1 THEN <<RowA>> ELSE <<RowB, RowA>>)]]
BackendNan ==
    [listing |-> Response(TRUE, <<Portfolio(1, "nan")>>),
     predictions |-> [i \in PortfolioIds |-> Response(TRUE, <<RowA>>)]]
AppBackends == {BackendDown, BackendTwo, BackendNan}

\* The backend's data changes, or it goes down or comes back.
BackendChange ==
    /\ api' \in AppBackends \ {api}
    /\ UNCHANGED <<cache, gets>>
    /\ UNCHANGED appVars
    /\ UNCHANGED builderVars

\* The server process is restarted: the cache and the sessions are gone.
\* (Before the first fetch a restart changes nothing.)
Restart ==
    /\ cache # <<>>
    /\ cache' = <<>>
    /\ gets' = 0
    /\ status' = [s \in Sessions |-> "new"]
    /\ widget' = [s \in Sessions |-> None]
    /\ chat_history' = [s \in Sessions |-> <<>>]
    /\ last_turn' = [s \in Sessions |-> <<>>]
    /\ llm_request' = [s \in Sessions |-> <<>>]
    /\ turns' = [s \in Sessions |-> 0]
    /\ UNCHANGED api
    /\ UNCHANGED builderVars

Init ==
    /\ api \in AppBackends
    /\ ProcessStart
    /\ NoSessions
    /\ BuilderIdle

Next ==
    \/ \E s \in Sessions : Load(s)
    \/ \E s \in Sessions : SelectPortfolio(s)
    \/ \E s \in Sessions : Ask(s)
    \/ BackendChange
    \/ Restart

Spec == Init /\ [][Next]_vars

(***************************************************************************)
(* Claims about the chat orchestrator, checked under Spec.                 *)
(***************************************************************************)
Log(s) == chat_history[s]
FallbackReply == "Sorry, something went wrong."

\* C1: every turn, whether the LLM call succeeds or raises, ends without an
\* exception and leaves the log two entries longer, the user's input and
\* an assistant message, which is the fallback string when the call failed.
C1_TurnAppendsTwo ==
    \A s \in Sessions :
        last_turn[s] # <<>> =>
            /\ status[s] # "exception"
            /\ Len(Log(s)) = 2 * turns[s]
            /\ Log(s)[Len(Log(s)) - 1] = Message("user", Head(last_turn[s]).user_input)
            /\ Log(s)[Len(Log(s))].role = "assistant"
            /\ Head(last_turn[s]).failed => Log(s)[Len(Log(s))].content = FallbackReply

\* C10: whenever a session awaits input, its log has even length and its
\* roles alternate user, assistant, ... starting with user.
C10_LogAlternates ==
    \A s \in Sessions :
        status[s] = "awaiting" =>
            /\ Len(Log(s)) % 2 = 0
            /\ \A i \in 1..Len(Log(s)) :
                  Log(s)[i].role = IF i % 2 = 1 THEN "user" ELSE "assistant"

\* Supporting fact for C10: short of a restart, the log before a step is a
\* prefix of the log after it.
IsPrefix(a, b) == Len(a) <= Len(b) /\ SubSeq(b, 1, Len(a)) = a
LogOnlyGrows ==
    [][\A s \in Sessions : cache' = <<>> \/ IsPrefix(Log(s), Log(s)')]_vars

\* C6: the request sent to the LLM holds exactly one message, and two
\* sessions that ask the same question about the same selected portfolio of
\* the same table send identical requests, whatever their logs were.
C6_RequestIsStateless ==
    \A s \in Sessions : \A t \in Sessions :
        (llm_request[s] # <<>> /\ llm_request[t] # <<>>) =>
            /\ Len(Head(llm_request[s]).messages) = 1
            /\ ( /\ Head(llm_request[s]).selected = Head(llm_request[t]).selected
                 /\ Head(llm_request[s]).user_input = Head(llm_request[t]).user_input )
               => Head(llm_request[s]).messages = Head(llm_request[t]).messages

\* C6 witness: s1 sent its request in its second turn, after a first
\* exchange, s2 in its first turn with an empty log, both for the same
\* portfolio and question, and the two requests are the same single message.
C6_Witness ==
    /\ turns["s1"] = 2
    /\ turns["s2"] = 1
    /\ llm_request["s1"] # <<>>
    /\ llm_request["s2"] # <<>>
    /\ Len(Log("s1")) = 4
    /\ Head(llm_request["s1"]).selected = "Income"
    /\ Head(llm_request["s1"]) = Head(llm_request["s2"])
    /\ Len(Head(llm_request["s1"]).messages) = 1

\* C7: once the first call of get_portfolio_predictions_df has completed,
\* no step issues another HTTP GET or changes the table, except a restart of
\* the process (there is no expiry: the decorator sets no ttl).
C7_FetchedOnce ==
    [][cache # <<>> =>
          \/ cache' = cache /\ gets' = gets
          \/ cache' = <<>> /\ gets' = 0]_vars

\* C7 witness: the first fetch failed and its empty table is what both
\* sessions got, while the backend has come back with data since.
C7_Witness ==
    /\ cache = <<EmptyFrame>>
    /\ gets = 1
    /\ api = BackendNan
    /\ \A s \in Sessions : status[s] = "stopped"

\* The fetched table is empty or lacks the portfolio_name column.
TableUnusable ==
    /\ cache # <<>>
    /\ (Table.rows = <<>> \/ "portfolio_name" \notin Table.columns)

\* C9: with such a table every run of the script halts before the selector
\* and the chat input: no session ever has a log entry, a prompt or an LLM
\* request.
C9_NoChatOnEmptyTable ==
    TableUnusable =>
        \A s \in Sessions :
            /\ status[s] \in {"new", "stopped"}
            /\ Log(s) = <<>>
            /\ last_turn[s] = <<>>
            /\ llm_request[s] = <<>>
            /\ widget[s] = None

\* C9 witness: a session has run into the guard and the other has not
\* loaded yet, and the backend now has two portfolios to offer.
C9_Witness ==
    /\ TableUnusable
    /\ api = BackendTwo
    /\ status["s1"] = "stopped"
    /\ status["s2"] = "new"

====
